---- MODULE Spec2Model ----
(***************************************************************************)
(* Flow multiplexing and local feedback layer of rtp-over-quic             *)
(* (package transport, flow.go): identified sub-flows, the RTCP flow, the  *)
(* prioritized RTP flow group and the ack/loss callback that feeds the     *)
(* local RFC 8888 feedback generator.                                      *)
(*                                                                         *)
(* Bytes are 0..255.  A uint64 flow id is its eight big-endian bytes, so   *)
(* that the 62-bit varint range is represented exactly.                    *)
(***************************************************************************)
EXTENDS Integers, Sequences, FiniteSets, TLC

\* ------------------------------------------------------------------ bounds
MaxWrites == 2          \* Write calls (RTP and RTCP together)
MaxBinds == 1           \* BindPriority calls
MaxGens == 1            \* RunLocalFeedback calls
MaxCancels == 2         \* cancel calls per context

\* --------------------------------------------------------- program constants
SmallBufferSize == 64   \* capacity of the first allocation of a bytes.Buffer
RTPHeaderSize == 12     \* rtp.Header.MarshalSize() without CSRC and extension

Nil == "nil"
NoErr == "nil"
errInvalidTransport == "transport does not implement ack/loss callback"
errTransport == "transport write error"
errShortBuffer == "short buffer"
errRTCPMarshal == "rtcp marshal error"

\* ------------------------------------------------------------------- inputs
\* uint64 values as eight big-endian bytes
U64(b1, b2, b3, b4, b5, b6, b7, b8) == <<b1, b2, b3, b4, b5, b6, b7, b8>>
Id7 == U64(0, 0, 0, 0, 0, 0, 0, 7)
Id64 == U64(0, 0, 0, 0, 0, 0, 0, 64)
Id16384 == U64(0, 0, 0, 0, 0, 0, 64, 0)
IdMax62 == U64(63, 255, 255, 255, 255, 255, 255, 255)
IdTwo62 == U64(64, 0, 0, 0, 0, 0, 0, 0)

\* io.Writer values a flow is bound to: "dgram" is a *Dgram, "stream" a
\* *Stream, "writer" a writer of another type (a TCP or UDP connection).
\* The concrete types flow.writeWithCallBack recognises:
CallbackTransports == {"dgram", "stream"}

\* the id given to NewRTPFlowWithID and the one given to NewRTCPFlowWithID
RTPFlowIDs == {Id64}
RTCPFlowIDs == {Id7}

\* arguments of RTCPFlow.Bind and of RTPFlow.Bind
RTCPTransports == {"dgram"}
RTPTransports == {"dgram", "writer"}

\* arguments (priority, flowID, transport) of RTPFlow.BindPriority
BindInputs ==
  { <<1, Id16384, "stream">>,
    <<0, IdMax62, "writer">>,
    <<2, IdTwo62, "dgram">> }

\* rtp.Header values
HdrA == [Marker |-> FALSE, SequenceNumber |-> 1, SSRC |-> 1, badExt |-> FALSE]
HdrB == [Marker |-> TRUE, SequenceNumber |-> 2, SSRC |-> 1, badExt |-> FALSE]
HdrBad == [Marker |-> TRUE, SequenceNumber |-> 1, SSRC |-> 2, badExt |-> TRUE]

\* arguments (header, payload) of RTPFlow.Write
WriteInputs ==
  { <<HdrA, <<>> >>, <<HdrA, <<1, 2>> >>, <<HdrB, <<1, 2>> >>, <<HdrBad, <<1, 2>> >> }

\* []rtcp.Packet values handed to RTCPFlow.Write: the bytes rtcp.Marshal
\* yields, or a packet list whose Marshal fails
RTCPBatches ==
  { [ok |-> TRUE, bytes |-> <<>>],
    [ok |-> TRUE, bytes |-> <<1, 2>>],
    [ok |-> FALSE, bytes |-> <<>>] }

\* Prioritizer implementations installed with SetPrioritizer: "marker" sends
\* marked packets to class 1 and the others to the class of their payload
\* length
Prioritizers == {"default", "marker"}

Contexts == {"ctx"}

\* ------------------------------------------------------------ quicvarint
LeadingZero(i, k) == \A j \in 1..k : i[j] = 0

\* quicvarint.Write panics when i does not fit into 62 bits
quicvarint_Panics(i) == i[1] > 63

\* quicvarint.Write(w, i): the bytes written to w (none when it panics)
quicvarint_Write(i) ==
  IF LeadingZero(i, 7) /\ i[8] <= 63 THEN <<i[8]>>
  ELSE IF LeadingZero(i, 6) /\ i[7] <= 63 THEN <<i[7] + 64, i[8]>>
  ELSE IF LeadingZero(i, 4) /\ i[5] <= 63
    THEN <<i[5] + 128, i[6], i[7], i[8]>>
  ELSE IF i[1] <= 63
    THEN <<i[1] + 192, i[2], i[3], i[4], i[5], i[6], i[7], i[8]>>
  ELSE <<>>

\* ------------------------------------------------------------------- flow
\* varIntID is a slice of a backing array of cap bytes: varIntID holds its
\* first len(varIntID) bytes and arr the bytes written behind them so far
\* (the rest of the array is zero)
newFlow ==
  [transport |-> Nil, useID |-> FALSE, id |-> U64(0, 0, 0, 0, 0, 0, 0, 0),
   varIntID |-> <<>>, cap |-> 0, arr |-> <<>>]

\* buf.Bytes() of a fresh bytes.Buffer: len = bytes written, cap = 64
newFlowWithID(id) ==
  [transport |-> Nil, useID |-> TRUE, id |-> id,
   varIntID |-> quicvarint_Write(id), cap |-> SmallBufferSize, arr |-> <<>>]

\* copy(back[at:], payload): the array back with payload stored behind its
\* first at bytes
Overwrite(back, at, payload) ==
  [i \in 1..(IF Len(back) > at + Len(payload) THEN Len(back)
             ELSE at + Len(payload)) |->
     IF i > at /\ i <= at + Len(payload) THEN payload[i - at] ELSE back[i]]

\* the id written behind the payload instead of in front of it
appendID_Swapped(f, payload) ==
  LET fits == Len(f.varIntID) + Len(payload) <= f.cap IN
  [data |-> payload \o f.varIntID,
   shared |-> fits,
   back |-> IF fits THEN Overwrite(f.varIntID \o f.arr, Len(f.varIntID), payload)
            ELSE f.varIntID \o f.arr]

\* the payload is stored from the start of the backing array
appendID_Overwrite(f, payload) ==
  LET fits == Len(f.varIntID) + Len(payload) <= f.cap IN
  [data |-> f.varIntID \o payload,
   shared |-> fits,
   back |-> IF fits THEN Overwrite(f.varIntID \o f.arr, 0, payload)
            ELSE f.varIntID \o f.arr]

\* a new array is allocated for every frame
appendID_Copy(f, payload) ==
  [data |-> f.varIntID \o payload,
   shared |-> FALSE,
   back |-> f.varIntID \o f.arr]

\* append(f.varIntID, payload...): within the capacity of varIntID the payload
\* is stored in its backing array, behind the id, and the result is a slice
\* of that array; beyond the capacity a new array is allocated.
\*   data: the bytes of the result, back: the backing array afterwards
appendID(f, payload) ==
  LET fits == Len(f.varIntID) + Len(payload) <= f.cap IN
  [data |-> f.varIntID \o payload,
   shared |-> fits,
   back |-> IF fits THEN Overwrite(f.varIntID \o f.arr, Len(f.varIntID), payload)
            ELSE f.varIntID \o f.arr]

framed(f, payload) ==
  IF f.useID THEN appendID(f, payload)
  ELSE [data |-> payload, shared |-> FALSE, back |-> f.varIntID \o f.arr]

\* ------------------------------------------------------------------ state
VARIABLES
  heap,           \* the flow objects, by address (1 is the RTCP flow's)
  flows,          \* RTPFlow.flows: priority -> address of a flow
  prioritizer,    \* RTPFlow.prioritizer
  localFeedback,  \* RTPFlow.localFeedback: 0 (nil) or a generator
  gens,           \* the generators created so far
  ctxDone,        \* which contexts are cancelled
  cancelCalls,    \* number of cancel calls per context
  writes,         \* number of Write calls made; the clock read by time.Now()
  last,           \* the Write call made by the latest step, if it was one:
                  \* its arguments, its result and the transport calls it made
  cbs,            \* the callbacks handed to transports, one entry per hand-over:
                  \* the write it belongs to, the packet as the transport got
                  \* it (transport, sub-flow, bytes), the closure, how often
                  \* the transport ran it and with what, how many packets it
                  \* passed to a generator's ack, and to which generator
  sink,           \* the reports delivered to reportCB, in order
  binds,          \* number of BindPriority calls
  crashed,        \* the process has panicked
  cc              \* package controller: the congestion-control algorithm
                  \* selected, its name, the algorithm the name was made from
                  \* by String (if any), and the latest operation

vars == <<heap, flows, prioritizer, localFeedback, gens, ctxDone, cancelCalls,
          writes, last, cbs, sink, binds, crashed, cc>>

\* The result of one call into this layer:
\*   panic  the call panicked
\*   n, err the values returned
\*   out    the calls made on transports, in order, each with what the
\*          transport returned
\*   cbs    the callbacks handed to a transport, in order
\*   mem    the backing arrays written to: the array of which flow, and its
\*          bytes afterwards
Result(panic, n, err, out, handed) ==
  [panic |-> panic, n |-> n, err |-> err, out |-> out, cbs |-> handed,
   mem |-> <<>>]

\* result r of a call that framed a payload on flow f as fr
Stored(r, f, fr) == [r EXCEPT !.mem = <<[flow |-> f, back |-> fr.back]>>]

\* io.Writer.Write as seen by the caller: all bytes or an error
TransportReturn(data, accept) ==
  IF accept THEN [n |-> Len(data), err |-> NoErr] ELSE [n |-> 0, err |-> errTransport]

\* a failed transport write is tried once more
flow_write_Retry(f, payload, accept) ==
  LET fr == framed(heap[f], payload)
      r == TransportReturn(fr.data, accept)
      call == [t |-> heap[f].transport, flow |-> f, data |-> fr.data,
               shared |-> fr.shared, cb |-> FALSE, ret |-> r] IN
  Stored(IF heap[f].transport = Nil
           THEN Result(TRUE, 0, NoErr, <<>>, <<>>)
           ELSE Result(FALSE, r.n, r.err,
                       IF accept THEN <<call>> ELSE <<call, call>>, <<>>),
         f, fr)

\* f is the address of the flow (*flow); accept is the transport's verdict
flow_write(f, payload, accept) ==
  LET fr == framed(heap[f], payload)
      r == TransportReturn(fr.data, accept) IN
  Stored(IF heap[f].transport = Nil
           THEN Result(TRUE, 0, NoErr, <<>>, <<>>)
           ELSE Result(FALSE, r.n, r.err,
                       <<[t |-> heap[f].transport, flow |-> f,
                          data |-> fr.data, shared |-> fr.shared,
                          cb |-> FALSE, ret |-> r]>>,
                       <<>>),
         f, fr)

\* a transport of another type is written to without the callback
flow_writeWithCallBack_Plain(f, payload, callback, accept) ==
  IF heap[f].transport \in CallbackTransports
    THEN LET fr == framed(heap[f], payload)
             r == TransportReturn(fr.data, accept) IN
         Stored(Result(FALSE, r.n, r.err,
                       <<[t |-> heap[f].transport, flow |-> f,
                          data |-> fr.data, shared |-> fr.shared,
                          cb |-> TRUE, ret |-> r]>>,
                       IF accept THEN <<callback>> ELSE <<>>),
                f, fr)
    ELSE flow_write(f, payload, accept)

\* the callback is registered with the transport twice
flow_writeWithCallBack_Twice(f, payload, callback, accept) ==
  LET fr == framed(heap[f], payload)
      r == TransportReturn(fr.data, accept) IN
  Stored(IF heap[f].transport \in CallbackTransports
           THEN Result(FALSE, r.n, r.err,
                       <<[t |-> heap[f].transport, flow |-> f,
                          data |-> fr.data, shared |-> fr.shared,
                          cb |-> TRUE, ret |-> r]>>,
                       IF accept THEN <<callback, callback>> ELSE <<>>)
           ELSE Result(FALSE, 0, errInvalidTransport, <<>>, <<>>),
         f, fr)

flow_writeWithCallBack(f, payload, callback, accept) ==
  LET fr == framed(heap[f], payload)
      r == TransportReturn(fr.data, accept) IN
  Stored(IF heap[f].transport \in CallbackTransports
           THEN Result(FALSE, r.n, r.err,
                       <<[t |-> heap[f].transport, flow |-> f,
                          data |-> fr.data, shared |-> fr.shared,
                          cb |-> TRUE, ret |-> r]>>,
                       IF accept THEN <<callback>> ELSE <<>>)
           ELSE Result(FALSE, 0, errInvalidTransport, <<>>, <<>>),
         f, fr)

\* ------------------------------------------------------------- RTCPFlow
RTCPFlowAddr == 1

\* the packets are written although rtcp.Marshal failed
RTCPFlow_Write_Unchecked(pkts, accept) ==
  flow_write(RTCPFlowAddr, pkts.bytes, accept)

RTCPFlow_Write(pkts, accept) ==
  IF ~pkts.ok
    THEN Result(FALSE, 0, errRTCPMarshal, <<>>, <<>>)
    ELSE flow_write(RTCPFlowAddr, pkts.bytes, accept)

\* -------------------------------------------------------------- RTPFlow
\* Prioritizer.Prioritize(header, payload) of the installed policy;
\* "default" is defaultPriorityFunc
Prioritize(p, h, b) ==
  CASE p = "default" -> 0
    [] p = "marker" -> IF h.Marker THEN 1 ELSE Len(b)

\* rtp.Header.Marshal: version 2, payload type 96, timestamp 0
Byte(x, k) == (x \div (256 ^ k)) % 256
header_Marshal(h) ==
  <<128, (IF h.Marker THEN 128 ELSE 0) + 96,
    Byte(h.SequenceNumber, 1), Byte(h.SequenceNumber, 0),
    0, 0, 0, 0,
    Byte(h.SSRC, 3), Byte(h.SSRC, 2), Byte(h.SSRC, 1), Byte(h.SSRC, 0)>>

header_MarshalSize(h) == RTPHeaderSize

\* the size captured as the sequence number and the other way round
AckClosure_Swapped(sent, ssrc, size, seqNr) ==
  [sent |-> sent, ssrc |-> ssrc, size |-> seqNr, seqNr |-> size]

\* the closure returned by RTPFlow.ackCallback, as its captured values
AckClosure(sent, ssrc, size, seqNr) ==
  [sent |-> sent, ssrc |-> ssrc, size |-> size, seqNr |-> seqNr]

\* the closure forwards the packet whatever b is
ackCallback_Always(c, b) ==
  <<[sentTS |-> c.sent, ssrc |-> c.ssrc, size |-> c.size, seqNr |-> c.seqNr]>>

\* running that closure with b: the packets passed to f.localFeedback.ack
ackCallback(c, b) ==
  IF b THEN <<[sentTS |-> c.sent, ssrc |-> c.ssrc, size |-> c.size,
               seqNr |-> c.seqNr]>>
  ELSE <<>>

\* the policy is not consulted: every packet goes to the default sub-flow
flows_lookup_Default(prio) == [ok |-> TRUE, flow |-> flows[0]]

\* a class without a sub-flow falls back to the default sub-flow
flows_lookup_Fallback(prio) ==
  IF prio \in DOMAIN flows THEN [ok |-> TRUE, flow |-> flows[prio]]
  ELSE [ok |-> TRUE, flow |-> flows[0]]

\* flow, ok := f.flows[prio]
flows_lookup(prio) ==
  IF prio \in DOMAIN flows THEN [ok |-> TRUE, flow |-> flows[prio]]
  ELSE [ok |-> FALSE, flow |-> 0]

\* local feedback is ignored: every packet takes the plain write path
RTPFlow_Write_Plain(header, payload, accept) ==
  LET prio == Prioritize(prioritizer, header, payload)
      found == flows_lookup(prio) IN
  IF header.badExt
    THEN Result(FALSE, 0, errShortBuffer, <<>>, <<>>)
  ELSE IF ~found.ok
    THEN Result(TRUE, 0, NoErr, <<>>, <<>>)
  ELSE flow_write(found.flow, header_Marshal(header) \o payload, accept)

RTPFlow_Write(header, payload, accept) ==
  LET prio == Prioritize(prioritizer, header, payload)
      found == flows_lookup(prio) IN
  IF header.badExt
    THEN Result(FALSE, 0, errShortBuffer, <<>>, <<>>)
  ELSE IF ~found.ok
    THEN Result(TRUE, 0, NoErr, <<>>, <<>>)
  ELSE IF localFeedback # 0
    THEN flow_writeWithCallBack(
           found.flow, header_Marshal(header) \o payload,
           AckClosure(writes, header.SSRC, header_MarshalSize(header),
                      header.SequenceNumber),
           accept)
  ELSE flow_write(found.flow, header_Marshal(header) \o payload, accept)

\* ------------------------------------------------- local feedback generator
\* state: Idle (constructed), Running, Stopped; started: a goroutine has been
\* told to run Run(ctx); window: the records acknowledged since the last report
newLocalRFC8888Generator(ctx) ==
  [state |-> "Idle", started |-> FALSE, ctx |-> ctx, window |-> {}]

\* a stopped generator makes the caller of ack wait for a reader
ack_Blocks_WhenStopped(g) == g.state = "Stopped"

\* localRFC8888Generator.ack(pkt) never makes its caller wait
ack_Blocks(g) == FALSE

\* localRFC8888Generator.ack(pkt) on generator g: the generator afterwards.
\* A stopped generator accepts no further ack events.
localFeedback_ack(g, pkt) ==
  IF g.state = "Stopped" THEN g
  ELSE [g EXCEPT !.window = @ \cup {pkt}]

\* ----------------------------------------------------------------- actions
NoHeader == [Marker |-> FALSE, SequenceNumber |-> 0, SSRC |-> 0, badExt |-> FALSE]

NoCall == [kind |-> "none", hdr |-> NoHeader, payload |-> <<>>, ok |-> TRUE,
           n |-> 0, err |-> NoErr, panic |-> FALSE, out |-> <<>>, handed |-> 0]

\* the effects on the state of one Write call with result r; ok: the
\* arguments can be marshalled
Apply(r, kind, hdr, payload, ok) ==
  /\ last' = [kind |-> kind, hdr |-> hdr, payload |-> payload, ok |-> ok,
              n |-> r.n,
              err |-> r.err, panic |-> r.panic, out |-> r.out,
              handed |-> Len(r.cbs)]
  /\ crashed' = r.panic
  /\ writes' = writes + 1
  /\ UNCHANGED cc
  /\ cbs' = cbs \o [i \in 1..Len(r.cbs) |->
                      [call |-> writes + 1, seqNr |-> hdr.SequenceNumber,
                       pkt |-> r.out[1], closure |-> r.cbs[i], fired |-> 0,
                       acked |-> FALSE, forwarded |-> 0, gen |-> 0]]
  /\ heap' = IF r.mem = <<>> THEN heap
             ELSE LET f == r.mem[1].flow
                      back == r.mem[1].back
                      n == Len(heap[f].varIntID) IN
                  [heap EXCEPT ![f].varIntID = SubSeq(back, 1, n),
                               ![f].arr = SubSeq(back, n + 1, Len(back))]
  /\ UNCHANGED <<flows, prioritizer, localFeedback, gens, ctxDone,
                 cancelCalls, sink, binds>>

\* RTCPFlow.Bind
RTCPBind(t) ==
  /\ ~crashed
  /\ last' = NoCall
  /\ UNCHANGED cc
  /\ heap[RTCPFlowAddr].transport # t
  /\ heap' = [heap EXCEPT ![RTCPFlowAddr].transport = t]
  /\ UNCHANGED <<flows, prioritizer, localFeedback, gens, ctxDone, cancelCalls,
                 writes, cbs, sink, binds, crashed>>

\* RTCPFlow.Write
RTCPWrite(pkts, accept) ==
  /\ ~crashed
  /\ writes < MaxWrites
  /\ Apply(RTCPFlow_Write(pkts, accept), "rtcp", NoHeader, pkts.bytes, pkts.ok)

\* RTPFlow.Bind
Bind(t) ==
  /\ ~crashed
  /\ last' = NoCall
  /\ UNCHANGED cc
  /\ heap[flows[0]].transport # t
  /\ heap' = [heap EXCEPT ![flows[0]].transport = t]
  /\ UNCHANGED <<flows, prioritizer, localFeedback, gens, ctxDone, cancelCalls,
                 writes, cbs, sink, binds, crashed>>

\* the new sub-flow replaces the whole table instead of one entry
BindPriority_Replace(priority, flowID, transport) ==
  /\ ~crashed
  /\ last' = NoCall
  /\ UNCHANGED cc
  /\ binds < MaxBinds
  /\ binds' = binds + 1
  /\ IF quicvarint_Panics(flowID)
       THEN /\ crashed' = TRUE
            /\ UNCHANGED <<heap, flows>>
       ELSE /\ heap' = Append(heap, [newFlowWithID(flowID) EXCEPT
                                       !.transport = transport])
            /\ flows' = [p \in {priority} |-> Len(heap) + 1]
            /\ UNCHANGED crashed
  /\ UNCHANGED <<prioritizer, localFeedback, gens, ctxDone, cancelCalls,
                 writes, cbs, sink>>

\* RTPFlow.BindPriority
BindPriority(priority, flowID, transport) ==
  /\ ~crashed
  /\ last' = NoCall
  /\ UNCHANGED cc
  /\ binds < MaxBinds
  /\ binds' = binds + 1
  /\ IF quicvarint_Panics(flowID)
       THEN /\ crashed' = TRUE
            /\ UNCHANGED <<heap, flows>>
       ELSE /\ heap' = Append(heap, [newFlowWithID(flowID) EXCEPT
                                       !.transport = transport])
            /\ flows' = [p \in DOMAIN flows \cup {priority} |->
                           IF p = priority THEN Len(heap) + 1 ELSE flows[p]]
            /\ UNCHANGED crashed
  /\ UNCHANGED <<prioritizer, localFeedback, gens, ctxDone, cancelCalls,
                 writes, cbs, sink>>

\* the packets in flight are moved to the sub-flow the new policy gives them
SetPrioritizer_Reroute(p) ==
  /\ ~crashed
  /\ last' = NoCall
  /\ UNCHANGED cc
  /\ prioritizer # p
  /\ prioritizer' = p
  /\ cbs' = [k \in DOMAIN cbs |->
               LET to == IF p = "default" THEN flows[0] ELSE cbs[k].pkt.flow IN
               [cbs[k] EXCEPT !.pkt.flow = to,
                              !.pkt.t = heap[to].transport]]
  /\ UNCHANGED <<heap, flows, localFeedback, gens, ctxDone, cancelCalls,
                 writes, sink, binds, crashed>>

\* RTPFlow.SetPrioritizer
SetPrioritizer(p) ==
  /\ ~crashed
  /\ last' = NoCall
  /\ UNCHANGED cc
  /\ prioritizer # p
  /\ prioritizer' = p
  /\ UNCHANGED <<heap, flows, localFeedback, gens, ctxDone, cancelCalls,
                 writes, cbs, sink, binds, crashed>>

\* the generator is constructed and Run is never started
RunLocalFeedback_NoGo(ctx) ==
  /\ ~crashed
  /\ last' = NoCall
  /\ UNCHANGED cc
  /\ Len(gens) < MaxGens
  /\ gens' = Append(gens, newLocalRFC8888Generator(ctx))
  /\ localFeedback' = Len(gens) + 1
  /\ UNCHANGED <<heap, flows, prioritizer, ctxDone, cancelCalls, writes,
                 cbs, sink, binds, crashed>>

\* RTPFlow.RunLocalFeedback
RunLocalFeedback(ctx) ==
  /\ ~crashed
  /\ last' = NoCall
  /\ UNCHANGED cc
  /\ Len(gens) < MaxGens
  /\ gens' = Append(gens, [newLocalRFC8888Generator(ctx) EXCEPT
                            !.started = TRUE])
  /\ localFeedback' = Len(gens) + 1
  /\ UNCHANGED <<heap, flows, prioritizer, ctxDone, cancelCalls, writes,
                 cbs, sink, binds, crashed>>

\* RTPFlow.Write
Write(header, payload, accept) ==
  /\ ~crashed
  /\ writes < MaxWrites
  /\ Apply(RTPFlow_Write(header, payload, accept), "rtp", header, payload,
           ~header.badExt)

\* cancelling a cancelled context is an error that ends the process
Cancel_Twice(ctx) ==
  /\ ~crashed
  /\ last' = NoCall
  /\ UNCHANGED cc
  /\ cancelCalls[ctx] < MaxCancels
  /\ cancelCalls' = [cancelCalls EXCEPT ![ctx] = @ + 1]
  /\ ctxDone' = [ctxDone EXCEPT ![ctx] = TRUE]
  /\ crashed' = ctxDone[ctx]
  /\ UNCHANGED <<heap, flows, prioritizer, localFeedback, gens, writes,
                 cbs, sink, binds>>

\* the cancel function of a context given to RunLocalFeedback
Cancel(ctx) ==
  /\ ~crashed
  /\ last' = NoCall
  /\ UNCHANGED cc
  /\ cancelCalls[ctx] < MaxCancels
  /\ cancelCalls' = [cancelCalls EXCEPT ![ctx] = @ + 1]
  /\ ctxDone' = [ctxDone EXCEPT ![ctx] = TRUE]
  /\ UNCHANGED <<heap, flows, prioritizer, localFeedback, gens, writes,
                 cbs, sink, binds, crashed>>

\* A transport reports the fate of an accepted write: it runs the callback
\* it holds, once, with b = acknowledged.
Notify(k, b) ==
  /\ ~crashed
  /\ last' = NoCall
  /\ UNCHANGED cc
  /\ k \in 1..Len(cbs)
  /\ cbs[k].fired = 0
  /\ LET pkts == ackCallback(cbs[k].closure, b) IN
       /\ pkts # <<>> => ~ack_Blocks(gens[localFeedback])
       /\ cbs' = [cbs EXCEPT ![k].fired = @ + 1, ![k].acked = b,
                             ![k].forwarded = @ + Len(pkts),
                             ![k].gen = IF pkts = <<>> THEN @ ELSE localFeedback]
       /\ gens' = IF pkts = <<>> THEN gens
                  ELSE [gens EXCEPT ![localFeedback] =
                          localFeedback_ack(@, pkts[1])]
  /\ UNCHANGED <<heap, flows, prioritizer, localFeedback, ctxDone, cancelCalls,
                 writes, sink, binds, crashed>>

GenUnchanged ==
  /\ last' = NoCall
  /\ UNCHANGED cc
  /\ UNCHANGED <<heap, flows, prioritizer, localFeedback, ctxDone, cancelCalls,
                 writes, cbs, binds, crashed>>

\* the goroutine started by RunLocalFeedback begins localRFC8888Generator.Run
GenRun(g) ==
  /\ ~crashed
  /\ g \in 1..Len(gens)
  /\ gens[g].state = "Idle"
  /\ gens[g].started
  /\ gens' = [gens EXCEPT ![g].state = "Running"]
  /\ UNCHANGED sink
  /\ GenUnchanged

\* a report is delivered after Run has returned as well
GenReport_Late(g) ==
  /\ ~crashed
  /\ g \in 1..Len(gens)
  /\ gens[g].state \in {"Running", "Stopped"}
  /\ gens[g].window # {}
  /\ sink' = Append(sink, [gen |-> g, pkts |-> gens[g].window])
  /\ gens' = [gens EXCEPT ![g].window = {}]
  /\ GenUnchanged

\* Run delivers a report of the records acknowledged since the last one
GenReport(g) ==
  /\ ~crashed
  /\ g \in 1..Len(gens)
  /\ gens[g].state = "Running"
  /\ gens[g].window # {}
  /\ sink' = Append(sink, [gen |-> g, pkts |-> gens[g].window])
  /\ gens' = [gens EXCEPT ![g].window = {}]
  /\ GenUnchanged

\* Run observes the cancellation of its context and returns
GenStop(g) ==
  /\ ~crashed
  /\ g \in 1..Len(gens)
  /\ gens[g].state = "Running"
  /\ ctxDone[gens[g].ctx]
  /\ gens' = [gens EXCEPT ![g].state = "Stopped"]
  /\ UNCHANGED sink
  /\ GenUnchanged

\* --------------------------------------------------------- package controller
\* type CongestionControlAlgorithm int, with its constants
Reno == 0
Cubic == 1
BBR == 2
SCReAM == 3
GCC == 4
Algorithms == {Reno, Cubic, BBR, SCReAM, GCC}
\* values of the type given to String: the constants and an undefined one
AlgorithmValues == Algorithms \cup {GCC + 1}
\* strings given to CongestionControlAlgorithmFromString
AlgorithmNames == {"reno", "cubic", "bbr", "scream", "gcc"}
NameInputs == AlgorithmNames \cup {"none", "RENO", "", "newreno"}

\* "gcc" is not known and falls to the default
CongestionControlAlgorithmFromString_NoGCC(a) ==
  CASE a = "reno" -> Reno
    [] a = "cubic" -> Cubic
    [] a = "bbr" -> BBR
    [] a = "scream" -> SCReAM
    [] OTHER -> Reno

CongestionControlAlgorithmFromString(a) ==
  CASE a = "reno" -> Reno
    [] a = "cubic" -> Cubic
    [] a = "bbr" -> BBR
    [] a = "scream" -> SCReAM
    [] a = "gcc" -> GCC
    [] OTHER -> Reno

CongestionControlAlgorithm_String(a) ==
  CASE a = Reno -> "reno"
    [] a = Cubic -> "cubic"
    [] a = BBR -> "bbr"
    [] a = SCReAM -> "scream"
    [] a = GCC -> "gcc"
    [] OTHER -> "none"

MainUnchanged ==
  UNCHANGED <<heap, flows, prioritizer, localFeedback, gens, ctxDone,
              cancelCalls, writes, last, cbs, sink, binds, crashed>>

\* an algorithm value is selected
CCSelect(a) ==
  /\ cc.alg # a
  /\ cc' = [cc EXCEPT !.alg = a, !.op = "select"]
  /\ MainUnchanged

\* a name is given from outside (a command line flag)
CCArgument(s) ==
  /\ cc.name # s \/ cc.orig # {}
  /\ cc' = [cc EXCEPT !.name = s, !.orig = {}, !.op = "argument"]
  /\ MainUnchanged

\* name = alg.String()
CCString ==
  /\ cc' = [cc EXCEPT !.name = CongestionControlAlgorithm_String(cc.alg),
                      !.orig = {cc.alg}, !.op = "String"]
  /\ MainUnchanged

\* alg = CongestionControlAlgorithmFromString(name)
CCFromString ==
  /\ cc' = [cc EXCEPT !.alg = CongestionControlAlgorithmFromString(cc.name),
                      !.op = "FromString"]
  /\ MainUnchanged

CCDefault == [alg |-> Reno, name |-> "reno", orig |-> {}, op |-> "none"]

\* ------------------------------------------------------------ specification
\* the RTCP flow is made by NewRTCPFlowWithID, the RTP flow group by
\* NewRTPFlow or NewRTPFlowWithID
InitRTCP == {newFlowWithID(id) : id \in RTCPFlowIDs}
InitRTP == {newFlow} \cup {newFlowWithID(id) : id \in RTPFlowIDs}

Init ==
  /\ heap \in {<<c, r>> : c \in InitRTCP, r \in InitRTP}
  /\ flows = [p \in {0} |-> 2]
  /\ prioritizer = "default"
  /\ localFeedback = 0
  /\ gens = <<>>
  /\ ctxDone = [c \in Contexts |-> FALSE]
  /\ cancelCalls = [c \in Contexts |-> 0]
  /\ writes = 0
  /\ last = NoCall
  /\ cbs = <<>>
  /\ sink = <<>>
  /\ binds = 0
  /\ crashed = FALSE
  /\ cc = CCDefault

Next ==
  \/ \E t \in RTCPTransports : RTCPBind(t)
  \/ \E pkts \in RTCPBatches, accept \in BOOLEAN : RTCPWrite(pkts, accept)
  \/ \E t \in RTPTransports : Bind(t)
  \/ \E a \in BindInputs : BindPriority(a[1], a[2], a[3])
  \/ \E p \in Prioritizers : SetPrioritizer(p)
  \/ \E c \in Contexts : RunLocalFeedback(c)
  \/ \E a \in WriteInputs, accept \in BOOLEAN : Write(a[1], a[2], accept)
  \/ \E c \in Contexts : Cancel(c)
  \/ \E k \in 1..MaxWrites, b \in BOOLEAN : Notify(k, b)
  \/ \E g \in 1..MaxGens : GenRun(g)
  \/ \E g \in 1..MaxGens : GenReport(g)
  \/ \E g \in 1..MaxGens : GenStop(g)

Spec == Init /\ [][Next]_vars

\* The goroutine running Run is scheduled, and a transport with the callback
\* capability reports the fate of every write it accepted.
Fairness ==
  /\ \A g \in 1..MaxGens : WF_vars(GenRun(g)) /\ WF_vars(GenReport(g))
                            /\ WF_vars(GenStop(g))
  /\ \A k \in 1..MaxWrites : WF_vars(\E b \in BOOLEAN : Notify(k, b))

FairSpec == Spec /\ Fairness

\* the conversions of package controller, applied to selected values and
\* given names in any order
CCInit ==
  /\ heap = <<newFlowWithID(Id7), newFlow>>
  /\ flows = [p \in {0} |-> 2]
  /\ prioritizer = "default"
  /\ localFeedback = 0
  /\ gens = <<>>
  /\ ctxDone = [c \in Contexts |-> FALSE]
  /\ cancelCalls = [c \in Contexts |-> 0]
  /\ writes = 0
  /\ last = NoCall
  /\ cbs = <<>>
  /\ sink = <<>>
  /\ binds = 0
  /\ crashed = FALSE
  /\ cc \in {[CCDefault EXCEPT !.alg = a, !.name = s] :
               a \in AlgorithmValues, s \in NameInputs}

CCNext ==
  \/ \E a \in AlgorithmValues : CCSelect(a)
  \/ \E s \in NameInputs : CCArgument(s)
  \/ CCString
  \/ CCFromString

CCSpec == CCInit /\ [][CCNext]_vars

\* the state of generator g ("None" before it is constructed)
GenState(g) == IF g \in 1..Len(gens) THEN gens[g].state ELSE "None"
GenCancelled(g) == g \in 1..Len(gens) /\ ctxDone[gens[g].ctx]

\* ------------------------------------------------------------------ claims
\* QUIC variable-length integers, read back from the wire (RFC 9000, 16):
\* the two top bits of the first byte give the length, the rest the value.
VarintLen(data) == 2 ^ (data[1] \div 64)
VarintValue(data) ==
  [j \in 1..8 |->
     LET n == VarintLen(data) IN
     IF j <= 8 - n THEN 0
     ELSE IF j = 9 - n THEN data[1] % 64
     ELSE data[j - (8 - n)]]
\* id fits a varint of n bytes
Fits(id, n) == LeadingZero(id, 8 - n) /\ id[9 - n] <= 63

\* data is the shortest varint of id followed by exactly the bytes of P
IsFramed(data, id, P) ==
  /\ Len(data) >= 1
  /\ Len(data) = VarintLen(data) + Len(P)
  /\ VarintValue(data) = id
  /\ \A m \in {1, 2, 4} : m < VarintLen(data) => ~Fits(id, m)
  /\ SubSeq(data, VarintLen(data) + 1, Len(data)) = P

\* the latest step was an RTPFlow.Write that got past header.Marshal
RTPCall == last.kind = "rtp" /\ ~last.hdr.badExt
\* the priority class the installed policy gives the packet of that call
LastPrio == Prioritize(prioritizer, last.hdr, last.payload)
\* the bytes RTPFlow.Write passes to the sub-flow
LastPacket == header_Marshal(last.hdr) \o last.payload

\* the latest step reached flow.write: on the RTCP flow, or on a registered
\* RTP sub-flow while local feedback is off
PlainWriteOn(f, P) ==
  \/ /\ last.kind = "rtcp" /\ last.err # errRTCPMarshal
     /\ f = RTCPFlowAddr /\ P = last.payload
  \/ /\ RTPCall /\ localFeedback = 0 /\ LastPrio \in DOMAIN flows
     /\ f = flows[LastPrio] /\ P = LastPacket

\* C1: flow.write(P) hands the transport exactly varint(id) ++ P on a sub-flow
\* created with id, and exactly P on one created without; one transport
\* call, nothing added, dropped or reordered.
C1_WriteFraming ==
  \A f \in 1..Len(heap) : \A P \in {last.payload, LastPacket} :
    (PlainWriteOn(f, P) /\ ~last.panic) =>
      /\ Len(last.out) = 1
      /\ last.out[1].t = heap[f].transport
      /\ ~last.out[1].cb
      /\ IF heap[f].useID THEN IsFramed(last.out[1].data, heap[f].id, P)
         ELSE last.out[1].data = P

\* Scenario A: a sub-flow with id 7 writes 01 02
C1_Witness ==
  /\ last.kind = "rtcp" /\ heap[RTCPFlowAddr].id = Id7
  /\ last.payload = <<1, 2>>
  /\ Len(last.out) = 1 /\ last.out[1].data = <<7, 1, 2>>

C3_UnregisteredPanics ==
  (RTPCall /\ LastPrio \notin DOMAIN flows) =>
    /\ last.panic /\ crashed
    /\ last.out = <<>>
    /\ last.handed = 0
    /\ \A k \in 1..Len(cbs) : cbs[k].call # writes

C3_Witness ==
  /\ RTPCall /\ LastPrio = 2 /\ 2 \notin DOMAIN flows
  /\ last.panic /\ localFeedback # 0 /\ heap[flows[0]].transport = "dgram"

\* the latest step was a callback write on sub-flow f
CallbackWriteOn(f) ==
  /\ RTPCall /\ localFeedback # 0 /\ LastPrio \in DOMAIN flows
  /\ f = flows[LastPrio]

\* C4: a callback write on a sub-flow whose transport lacks ack/loss
\* notification returns errInvalidTransport and 0, writes nothing to the
\* transport and hands the callback to nobody, so that it never runs.
C4_InvalidTransport ==
  \A f \in 1..Len(heap) :
    (CallbackWriteOn(f) /\ heap[f].transport \notin CallbackTransports) =>
      /\ ~last.panic
      /\ last.n = 0 /\ last.err = errInvalidTransport
      /\ last.out = <<>>
      /\ last.handed = 0
      /\ \A k \in 1..Len(cbs) : cbs[k].call # writes

\* refused on an identified sub-flow bound to a plain writer
C4_Witness ==
  \E f \in 1..Len(heap) :
    /\ CallbackWriteOn(f) /\ heap[f].transport = "writer" /\ heap[f].useID
    /\ last.err = errInvalidTransport

\* ---------------------------------------------------- callbacks and feedback
Cbs == 1..Len(cbs)
Fired(k) == IF k \in Cbs THEN cbs[k].fired ELSE 0
Acked(k) == k \in Cbs /\ cbs[k].fired >= 1 /\ cbs[k].acked
\* the generator the callback of k passed its packet to (0: none)
CbGen(k) == IF k \in Cbs THEN cbs[k].gen ELSE 0
\* the Send Record of the packet of callback k
Record(k) == [sentTS |-> cbs[k].closure.sent, ssrc |-> cbs[k].closure.ssrc,
              size |-> cbs[k].closure.size, seqNr |-> cbs[k].closure.seqNr]
\* the reports generator g has delivered, in order
ReportsOf(g) == SelectSeq(sink, LAMBDA r : r.gen = g)
\* the records in delivered reports, and those a generator holds or reported
Reported == UNION {sink[i].pkts : i \in 1..Len(sink)}
AtGenerators == Reported \cup UNION {gens[g].window : g \in 1..Len(gens)}
\* how many windows and reports hold record p
Holders(p) ==
  Cardinality({g \in 1..Len(gens) : p \in gens[g].window})
    + Cardinality({i \in 1..Len(sink) : p \in sink[i].pkts})
SeqReported(k) ==
  k \in Cbs /\ \E p \in Reported : p.seqNr = cbs[k].seqNr

C5_Once ==
  \* a callback write the transport accepted hands the callback over once,
  \* one it refused never
  /\ (RTPCall /\ localFeedback # 0 /\ Len(last.out) = 1) =>
       /\ last.handed = (IF last.err = NoErr THEN 1 ELSE 0)
       /\ Cardinality({k \in Cbs : cbs[k].call = writes}) = last.handed
  \* no write hands over two callbacks, no callback runs twice, and it has
  \* run with true only if the transport ran it
  /\ \A k, j \in Cbs : k # j => cbs[k].call # cbs[j].call
  /\ \A k \in Cbs : cbs[k].fired <= 1 /\ (cbs[k].acked => cbs[k].fired = 1)
  \* the write itself has not run the callback
  /\ \A k \in Cbs : (last.kind # "none" /\ cbs[k].call = writes) =>
                      cbs[k].fired = 0

\* C5: for every packet accepted by writeWithCallBack the callback runs exactly
\* once: it is handed to the transport once per write, this layer never runs
\* it (a Write step leaves every callback as it was), it never runs twice, and
\* it runs eventually (unless the process has died).
C5_CallbackExactlyOnce ==
  /\ []C5_Once
  /\ [][writes' # writes => \A k \in Cbs : cbs'[k] = cbs[k]]_vars
  /\ \A k \in 1..MaxWrites : (k \in Cbs) ~> (crashed \/ Fired(k) = 1)

\* one packet acknowledged and one lost, each callback having run once
C5_Witness ==
  \E k, j \in Cbs : /\ cbs[k].fired = 1 /\ cbs[k].acked
                    /\ cbs[j].fired = 1 /\ ~cbs[j].acked

\* C6: a Send Record reaches the generator exactly when the packet's callback
\* ran with true: then ack is called once with it, and otherwise (lost, or not
\* notified yet) never; the generators hold records of acknowledged packets
\* only, each at most once.
C6_RecordIffAcked ==
  /\ \A k \in Cbs : cbs[k].forwarded = (IF Acked(k) THEN 1 ELSE 0)
  /\ \A p \in AtGenerators : \E k \in Cbs : Acked(k) /\ p = Record(k)
  /\ \A k \in Cbs : Holders(Record(k)) <= 1
  /\ \A k \in Cbs :
       (Acked(k) /\ GenState(cbs[k].gen) # "Stopped") => Holders(Record(k)) = 1

\* an acknowledged packet whose record is at the generator and a lost one
\* whose record is not
C6_Witness ==
  \E k, j \in Cbs :
    /\ Acked(k) /\ Record(k) \in AtGenerators
    /\ cbs[j].fired = 1 /\ ~cbs[j].acked /\ Record(j) \notin AtGenerators

\* C7: no delivered report references the sequence number of a packet that
\* was not acknowledged, and the sequence number of every acknowledged packet
\* is eventually in a delivered report, unless the generator it went to has
\* stopped (or the process has died).
C7_ReportsAcked ==
  /\ [](\A p \in Reported : \E k \in Cbs : Acked(k) /\ cbs[k].seqNr = p.seqNr)
  /\ \A k \in 1..MaxWrites :
       Acked(k) ~> (SeqReported(k) \/ crashed \/ GenState(CbGen(k)) = "Stopped")

\* Scenario C in small: two packets written, one acknowledged and in a report
\* of the running generator, the other never acknowledged and in none
C7_Witness ==
  \E k, j \in Cbs :
    /\ Acked(k) /\ SeqReported(k) /\ GenState(CbGen(k)) = "Running"
    /\ ~cbs[j].acked /\ ~SeqReported(j)

C9_Lifecycle ==
  /\ [][\A g \in 1..MaxGens :
          GenState(g)' # GenState(g) =>
            /\ <<GenState(g), GenState(g)'>> \in
                 { <<"None", "Idle">>, <<"Idle", "Running">>,
                   <<"Running", "Stopped">> }
            /\ GenState(g)' = "Stopped" => GenCancelled(g)]_vars
  /\ [][\A g \in 1..MaxGens :
          ReportsOf(g)' # ReportsOf(g) =>
            GenState(g) = "Running" /\ GenState(g)' = "Running"]_vars
  /\ \A g \in 1..MaxGens :
       GenCancelled(g) ~> (crashed \/ GenState(g) = "Stopped")

\* a generator that delivered a report and then stopped
C9_Witness ==
  \E g \in 1..Len(gens) : gens[g].state = "Stopped" /\ ReportsOf(g) # <<>>

FeedbackEnabled == Len(gens) >= 1

\* C11: once RunLocalFeedback has been called every RTPFlow.Write that reaches
\* a sub-flow takes the callback write path (the callback goes to the
\* transport with the write, or the write is refused); before that every such
\* Write takes the plain path and hands over no callback; the instrumentation
\* is never switched off again.
C11_Instrumented ==
  /\ [](FeedbackEnabled <=> localFeedback # 0)
  /\ []((RTPCall /\ LastPrio \in DOMAIN flows /\ FeedbackEnabled) =>
          /\ ~last.panic
          /\ \A i \in 1..Len(last.out) : last.out[i].cb
          /\ last.out = <<>> <=> last.err = errInvalidTransport
          /\ last.handed = (IF last.err = NoErr THEN 1 ELSE 0)
          /\ Cardinality({k \in Cbs : cbs[k].call = writes}) = last.handed)
  /\ []((RTPCall /\ LastPrio \in DOMAIN flows /\ ~FeedbackEnabled
            /\ ~last.panic) =>
          /\ Len(last.out) = 1 /\ ~last.out[1].cb
          /\ last.err # errInvalidTransport
          /\ last.handed = 0
          /\ cbs = <<>>)
  /\ [][localFeedback # 0 => localFeedback' # 0]_vars

\* a packet written plainly before RunLocalFeedback and one written with a
\* callback after it
C11_Witness ==
  /\ RTPCall /\ FeedbackEnabled /\ writes = 2
  /\ last.handed = 1 /\ Len(cbs) = 1 /\ cbs[1].call = 2
  /\ last.out[1].cb

\* C12: SetPrioritizer replaces the policy and nothing else: the packets
\* already handed to a transport keep their sub-flow, transport and bytes and
\* their pending callbacks, no sub-flow or binding changes, nothing is written;
\* and every Write is routed by the policy installed when it is issued.
C12_SetPrioritizerFrame ==
  /\ [][prioritizer' # prioritizer =>
          /\ cbs' = cbs
          /\ UNCHANGED <<heap, flows, localFeedback, gens, sink, writes,
                         crashed>>]_vars
  /\ [][(writes' # writes /\ last'.kind = "rtp") =>
          /\ prioritizer' = prioritizer
          /\ \A i \in 1..Len(last'.out) :
               last'.out[i].flow =
                 flows[Prioritize(prioritizer, last'.hdr, last'.payload)]]_vars

\* a marked packet handed to the default sub-flow under the default policy is
\* still there, awaiting its ack, after the policy was replaced and the next
\* marked packet went to the sub-flow of class 1
C12_Witness ==
  /\ prioritizer = "marker" /\ 1 \in DOMAIN flows /\ flows[1] # flows[0]
  /\ RTPCall /\ last.hdr.Marker
  /\ Len(last.out) = 1 /\ last.out[1].flow = flows[1]
  /\ \E k \in Cbs : /\ cbs[k].call = 1 /\ cbs[k].fired = 0
                     /\ cbs[k].pkt.flow = flows[0]
                     /\ cbs[k].closure.seqNr = HdrB.SequenceNumber

\* C13: every Write calls a transport's write at most once and returns what
\* that call returned, the error included: a failed write is not repeated, no
\* other sub-flow is tried, and no callback stays behind for it.
C13_TransportError ==
  last.kind # "none" =>
    /\ Len(last.out) <= 1
    /\ \A i \in 1..Len(last.out) :
         /\ last.err = last.out[i].ret.err /\ last.n = last.out[i].ret.n
         /\ last.out[i].ret.err # NoErr =>
              /\ last.err = errTransport /\ ~last.panic
              /\ last.handed = 0
              /\ \A k \in Cbs : cbs[k].call # writes
    /\ last.err = errTransport => Len(last.out) = 1

\* Scenario F in small: the transport of the sub-flow of class 1 fails while
\* another sub-flow is registered, and the Write returns the error
C13_Witness ==
  /\ RTPCall /\ last.err = errTransport /\ last.n = 0
  /\ LastPrio = 1 /\ DOMAIN flows = {0, 1}
  /\ heap[flows[0]].transport # Nil
  /\ Len(last.out) = 1 /\ last.out[1].flow = flows[1]

\* C14: in every reachable state a sub-flow of the group is registered at
\* priority class 0, and under the default policy every Write finds its
\* sub-flow: it is routed to class 0 and can only panic for want of a
\* transport (a never bound sub-flow written to plainly), never for a missing
\* class.
C14_DefaultRegistered ==
  /\ 0 \in DOMAIN flows
  /\ flows[0] \in 1..Len(heap) /\ flows[0] # RTCPFlowAddr
  /\ (RTPCall /\ prioritizer = "default") =>
       /\ LastPrio = 0 /\ flows_lookup(LastPrio).ok
       /\ last.panic => (heap[flows[0]].transport = Nil /\ localFeedback = 0)
       /\ ~last.panic => (last.out = <<>> \/ last.out[1].flow = flows[0])

\* class 0 was registered anew by BindPriority, and a Write under the default
\* policy went to the new sub-flow
C14_Witness ==
  /\ RTPCall /\ prioritizer = "default" /\ ~last.panic
  /\ binds = 1 /\ flows[0] = 3 /\ heap[3].id = IdMax62
  /\ Len(last.out) = 1 /\ last.out[1].flow = 3

\* the RTP packet of callback k as the transport got it, behind the flow id
PacketOf(k) ==
  LET d == cbs[k].pkt.data
      n == Len(heap[cbs[k].pkt.flow].varIntID) IN
  SubSeq(d, n + 1, Len(d))
\* the header fields read back from those bytes
PacketSeqNr(k) == PacketOf(k)[3] * 256 + PacketOf(k)[4]
PacketSSRC(k) ==
  ((PacketOf(k)[9] * 256 + PacketOf(k)[10]) * 256 + PacketOf(k)[11]) * 256
    + PacketOf(k)[12]

\* the Send Record of a packet carries the packet's sequence number and SSRC
\* and the time of the Write call that handed it to the transport, and the
\* values captured for a packet never change
SendRecordIdentity ==
  /\ [](\A k \in Cbs :
          /\ Record(k).seqNr = PacketSeqNr(k)
          /\ Record(k).ssrc = PacketSSRC(k)
          /\ Record(k).sentTS = cbs[k].call - 1)
  /\ [][\A k \in Cbs : cbs'[k].closure = cbs[k].closure
                          /\ cbs'[k].pkt = cbs[k].pkt]_vars
  /\ [](\A p \in AtGenerators : \E k \in Cbs : p = Record(k))

\* the size in the Send Record is the size of the packet, header and payload
SendRecordSize == \A k \in Cbs : Record(k).size = Len(PacketOf(k))

\* the size in the Send Record is the size of the marshalled header
SendRecordHeaderSize ==
  \A k \in Cbs : Record(k).size = Len(header_Marshal(HdrA))

\* C15: the Send Record forwarded on acknowledgment carries the packet's
\* sequence number, its SSRC, the size in bytes of the packet written (header
\* plus payload) and the time the packet was handed to the transport; the
\* values are fixed at write time.
C15_SendRecord == SendRecordIdentity /\ []SendRecordSize

\* a packet of 14 bytes (header and two bytes of payload) was acknowledged
\* and its record, with size 12, is at the generator
C15_Witness ==
  \E k \in Cbs :
    /\ Acked(k) /\ Record(k) \in AtGenerators
    /\ Len(PacketOf(k)) = RTPHeaderSize + 2
    /\ Record(k).size = RTPHeaderSize

\* C16: the encoded id of a sub-flow is non-empty exactly when the sub-flow
\* uses its id (and then is the varint of the id), and no step (bind, plain
\* write, callback write, notification) changes the encoded id or the flag of
\* a sub-flow, although writes store payloads in the array behind it.
C16_EncodedID ==
  /\ [](\A f \in 1..Len(heap) :
          /\ (heap[f].varIntID # <<>>) <=> heap[f].useID
          /\ heap[f].useID => heap[f].varIntID = quicvarint_Write(heap[f].id))
  /\ [][\A f \in 1..Len(heap) :
          /\ heap'[f].varIntID = heap[f].varIntID
          /\ heap'[f].useID = heap[f].useID
          /\ heap'[f].id = heap[f].id]_vars

\* a plain write and a refused callback write have stored packets behind the
\* eight-byte id of the sub-flow registered anew at class 0
C16_Witness ==
  /\ writes = 2 /\ FeedbackEnabled /\ last.err = errInvalidTransport
  /\ heap[flows[0]].id = IdMax62
  /\ Len(heap[flows[0]].varIntID) = 8
  /\ heap[flows[0]].arr = header_Marshal(HdrB) \o <<1, 2>>
  /\ heap[2].useID /\ heap[2].arr = <<>>

\* C17: RTCPFlow.Write is a plain write on the RTCP flow's own transport: it
\* hands over no callback, and the step changes no callback, generator,
\* report, policy or sub-flow table, whether or not local feedback is enabled
\* and whatever policy is installed; when rtcp.Marshal fails it returns 0 and
\* the error and calls no transport.
C17_RTCPPlain ==
  /\ [](last.kind = "rtcp" =>
          /\ last.handed = 0
          /\ \A k \in Cbs : cbs[k].call # writes
          /\ \A i \in 1..Len(last.out) :
               /\ last.out[i].flow = RTCPFlowAddr /\ ~last.out[i].cb
               /\ last.out[i].t = heap[RTCPFlowAddr].transport
          /\ (last.ok /\ ~last.panic) =>
               /\ Len(last.out) = 1
               /\ IsFramed(last.out[1].data, heap[RTCPFlowAddr].id, last.payload)
          /\ ~last.ok =>
               /\ last.n = 0 /\ last.err = errRTCPMarshal /\ ~last.panic
               /\ last.out = <<>>)
  /\ [][last'.kind = "rtcp" =>
          /\ cbs' = cbs /\ gens' = gens /\ sink' = sink
          /\ UNCHANGED <<prioritizer, flows, localFeedback>>]_vars

\* RTCP written on the datagram transport the RTP group also uses, with local
\* feedback enabled, a replaced policy and an RTP packet awaiting its ack
C17_Witness ==
  /\ last.kind = "rtcp" /\ last.ok /\ Len(last.out) = 1
  /\ FeedbackEnabled /\ prioritizer = "marker"
  /\ heap[RTCPFlowAddr].transport = "dgram"
  /\ heap[flows[0]].transport = "dgram"
  /\ \E k \in Cbs : cbs[k].fired = 0 /\ cbs[k].pkt.t = "dgram"

\* the bytes the transport reads now from the buffer it got for packet k: the
\* buffer is a slice of the sub-flow's backing array when append did not
\* allocate, and an array of its own otherwise
Retained(k) ==
  LET f == cbs[k].pkt.flow IN
  IF cbs[k].pkt.shared
    THEN SubSeq(heap[f].varIntID \o heap[f].arr, 1, Len(cbs[k].pkt.data))
    ELSE cbs[k].pkt.data

\* C18: while a transport holds the buffer of an earlier write on an
\* identified sub-flow (its packet awaits the ack), the buffer still reads as
\* the frame that was handed over, encode(id) ++ P1, whatever was written on
\* the sub-flow since.
C18_FramesKept ==
  \A k \in Cbs :
    (cbs[k].fired = 0 /\ heap[cbs[k].pkt.flow].useID) =>
      /\ IsFramed(cbs[k].pkt.data, heap[cbs[k].pkt.flow].id, PacketOf(k))
      /\ Retained(k) = cbs[k].pkt.data

\* two packets written on the sub-flow with id 64, the first still awaiting
\* its ack: its buffer reads as the id followed by the second packet's header
C18_Witness ==
  \E k, j \in Cbs :
    /\ cbs[k].call = 1 /\ cbs[j].call = 2 /\ cbs[k].fired = 0
    /\ cbs[k].pkt.flow = cbs[j].pkt.flow /\ heap[cbs[k].pkt.flow].id = Id64
    /\ cbs[k].pkt.data = <<64, 64>> \o header_Marshal(HdrA)
    /\ Retained(k) = <<64, 64>> \o header_Marshal(HdrB)

\* C19: for each of Reno, Cubic, BBR, SCReAM and GCC, the name String gives
\* is converted back by CongestionControlAlgorithmFromString to the same
\* value: whenever a name made by String from one of the five has been
\* parsed, the result is the value the name was made from; and the names
\* reno, cubic, bbr, scream, gcc give five distinct values, the five
\* constants.
C19_RoundTrip ==
  /\ (cc.op = "FromString") => \A a \in cc.orig \cap Algorithms : cc.alg = a
  /\ \A a \in Algorithms :
       /\ CongestionControlAlgorithm_String(a) \in AlgorithmNames
       /\ CongestionControlAlgorithmFromString(
            CongestionControlAlgorithm_String(a)) = a
  /\ \A m, n \in AlgorithmNames :
       m # n => CongestionControlAlgorithmFromString(m)
                  # CongestionControlAlgorithmFromString(n)
  /\ {CongestionControlAlgorithmFromString(n) : n \in AlgorithmNames}
       = Algorithms

\* GCC was converted to "gcc" and back
C19_Witness ==
  /\ cc.op = "FromString" /\ cc.orig = {GCC}
  /\ cc.name = "gcc" /\ cc.alg = GCC

====
